---- MODULE Spec2Model ----
(***************************************************************************)
(* ccnotify: the hook dispatcher of src/ccnotify/ccnotify.py.              *)
(*                                                                         *)
(* One invocation of the program (main) handles one hook event.  The       *)
(* invocations share the prompt table of ccnotify.db (ledger), the wall    *)
(* clock SQLite reads for CURRENT_TIMESTAMP (now, whole seconds) and the    *)
(* desktop alerts terminal-notifier holds per group (pending).  Every      *)
(* SQL statement is one atomic step; the steps of one invocation are       *)
(* separated by the program counter pc, so that two invocations running    *)
(* as separate processes interleave between statements.                    *)
(***************************************************************************)
EXTENDS Integers, Sequences, FiniteSets, TLC

\* ------------------------------------------------------------------ bounds
MaxRecords == 2
MaxTicks == 1
TickSeconds == 90
NumProcs == 2

Procs == 1..NumProcs
Sessions == {"s1", "s2"}

\* SQL NULL in an INTEGER / DATETIME column, and Python's None for a row.
NULL == -1

\* A text that is no ISO timestamp, where a timestamp is expected.
NotATime == -2

\* ------------------------------------------------------- program constants
FLASH_COLOR == "4a3a00"
BG_COLOR == "2d2d3d"

REQUIRED_FIELDS ==
    [UserPromptSubmit |-> {"session_id", "prompt", "cwd", "hook_event_name"},
     Stop |-> {"session_id", "hook_event_name"},
     Notification |-> {"session_id", "message", "hook_event_name"}]

EVENT_HANDLERS == {"UserPromptSubmit", "Stop", "Notification"}

VARIABLES
    ledger,     \* the prompt table: a sequence of rows, row i has id i
    now,        \* the wall clock, in seconds
    pending,    \* the group tags of the desktop alerts currently shown
    pc,         \* pc[p]: where invocation p stands
    ev,         \* ev[p]: the input of invocation p (argv, stdin, environment)
    loc,        \* loc[p]: the local variables of the running handler
    trace,      \* trace[p]: the collaborator calls invocation p has made
    exit_code,  \* exit_code[p]: the exit status of invocation p
    hist,       \* hist[s]: whether the events of session s alternated so far
    unit        \* one function of the program applied on its own: its
                \* name, its arguments, and <<result>> once it has returned

vars == <<ledger, now, pending, pc, ev, loc, trace, exit_code, hist, unit>>

\* ------------------------------------------------------------- the ledger
\* A sequence as the set of its elements.
Range(s) == {s[i] : i \in 1..Len(s)}

Last(s) == s[Len(s)]

SetMax(S) == CHOOSE x \in S : \A y \in S : y <= x

\* The rows of one session, by id.
RowsOf(l, sid) == {i \in 1..Len(l) : l[i].session_id = sid}

\* The rows of one session with stoped_at IS NULL.
OpenRowsOf(l, sid) == {i \in RowsOf(l, sid) : l[i].stoped_at = NULL}

\* NextSeq without the WHERE clause: the maximum over all sessions.
NextSeq_AllSessions(l, sid) ==
    LET seqs == {l[i].seq : i \in {j \in 1..Len(l) : l[j].seq # NULL}}
    IN  IF seqs = {} THEN 0 + 1 ELSE SetMax(seqs) + 1

\* SELECT COALESCE(MAX(seq), 0) + 1 FROM prompt WHERE session_id = NEW.session_id
\* (MAX skips the rows whose seq is NULL, the new row among them).
NextSeq(l, sid) ==
    LET seqs == {l[i].seq : i \in {j \in RowsOf(l, sid) : l[j].seq # NULL}}
    IN  IF seqs = {} THEN 0 + 1 ELSE SetMax(seqs) + 1

\* The trigger with WHERE session_id = NEW.session_id in place of WHERE
\* id = NEW.id: every row of the session gets the new seq.
auto_increment_seq_WholeSession(l, id) ==
    [i \in 1..Len(l) |->
        IF l[i].session_id = l[id].session_id
        THEN [l[i] EXCEPT !.seq = NextSeq(l, l[id].session_id)]
        ELSE l[i]]

\* The trigger auto_increment_seq, AFTER INSERT of row id.
auto_increment_seq(l, id) ==
    [l EXCEPT ![id].seq = NextSeq(l, l[id].session_id)]

\* INSERT INTO prompt (session_id, prompt, cwd) VALUES (?, ?, ?): the id is the
\* next AUTOINCREMENT value, created_at defaults to CURRENT_TIMESTAMP, the
\* other columns to NULL; the trigger runs inside the same statement.
InsertPrompt(l, sid, prompt, cwd, t) ==
    LET row == [id |-> Len(l) + 1, session_id |-> sid, created_at |-> t,
                prompt |-> prompt, cwd |-> cwd, seq |-> NULL,
                stoped_at |-> NULL, lastWaitUserAt |-> NULL]
    IN  auto_increment_seq(Append(l, row), Len(l) + 1)

\* ORDER BY created_at DESC LIMIT 1 over the rows ids: every row with the
\* greatest created_at is a possible answer (SQL leaves the order of rows
\* with equal keys open; created_at has a resolution of one second).
LatestByCreatedAt(l, ids) ==
    {i \in ids : \A j \in ids : l[j].created_at <= l[i].created_at}

\* SelectOpenPrompt taking the latest row of the session, open or not.
SelectOpenPrompt_Latest(l, sid) == LatestByCreatedAt(l, RowsOf(l, sid))

\* SELECT id, created_at, cwd FROM prompt WHERE session_id = ? AND stoped_at
\* IS NULL ORDER BY created_at DESC LIMIT 1: the possible answers ({} = no row).
SelectOpenPrompt(l, sid) == LatestByCreatedAt(l, OpenRowsOf(l, sid))

\* UpdateStopedAt writing the other timestamp column.
UpdateStopedAt_OtherColumn(l, id, t) == [l EXCEPT ![id].lastWaitUserAt = t]

\* UPDATE prompt SET stoped_at = CURRENT_TIMESTAMP WHERE id = ?
UpdateStopedAt(l, id, t) == [l EXCEPT ![id].stoped_at = t]

\* UpdateLastWaitUserAt without the WHERE session_id = ? of the subselect.
UpdateLastWaitUserAt_AnySession(l, sid, t) ==
    IF l = <<>> THEN {l}
    ELSE {[l EXCEPT ![i].lastWaitUserAt = t] :
            i \in LatestByCreatedAt(l, 1..Len(l))}

\* UPDATE prompt SET lastWaitUserAt = CURRENT_TIMESTAMP WHERE id = (SELECT id
\* FROM prompt WHERE session_id = ? ORDER BY created_at DESC LIMIT 1): the
\* possible results; with no row of the session the subselect is NULL and the
\* update matches nothing.
UpdateLastWaitUserAt(l, sid, t) ==
    IF RowsOf(l, sid) = {} THEN {l}
    ELSE {[l EXCEPT ![i].lastWaitUserAt = t] :
            i \in LatestByCreatedAt(l, RowsOf(l, sid))}

\* ------------------------------------------------------- the environment
\* A text with separators is modelled by its parts: "w0t0p0:U1" is
\* <<"w0t0p0", "U1">>, the empty text is <<>>.
RECURSIVE Join(_, _)
Join(parts, sep) ==
    IF parts = <<>> THEN ""
    ELSE IF Len(parts) = 1 THEN parts[1]
    ELSE parts[1] \o sep \o Join(Tail(parts), sep)

\* _parse_iterm_session_id on the value of ITERM_SESSION_ID: (raw, uuid).
parse_iterm_session_id(env) ==
    LET raw == Join(env, ":")
    IN  IF raw = "" THEN [raw |-> "", uuid |-> ""]
        ELSE [raw |-> raw,
              uuid |-> IF Len(env) > 1 THEN Last(env) ELSE raw]

\* os.path.basename of a path given by its components.
basename(path) == IF path = <<>> THEN "" ELSE Last(path)

\* --------------------------------------------------------------- durations
\* _format_duration on two timestamps of the table (whole seconds; a value
\* that is no timestamp makes fromisoformat raise, which is caught).
\* _format_duration with the minutes not reduced to the minutes of the hour.
format_duration_TotalMinutes(start_time, end_time) ==
    IF start_time \in {NULL, NotATime} \/ end_time \in {NULL, NotATime}
    THEN "Unknown"
    ELSE LET total_seconds == end_time - start_time
             hours == total_seconds \div 3600
             minutes == total_seconds \div 60
             seconds == total_seconds % 60
         IN  IF total_seconds < 60 THEN ToString(total_seconds) \o "s"
             ELSE IF hours > 0
                  THEN IF minutes # 0
                       THEN ToString(hours) \o "h" \o ToString(minutes) \o "m"
                       ELSE ToString(hours) \o "h"
                  ELSE IF seconds # 0
                       THEN ToString(minutes) \o "m" \o ToString(seconds) \o "s"
                       ELSE ToString(minutes) \o "m"

format_duration(start_time, end_time) ==
    IF start_time \in {NULL, NotATime} \/ end_time \in {NULL, NotATime}
    THEN "Unknown"
    ELSE LET total_seconds == end_time - start_time
             hours == total_seconds \div 3600
             remainder == total_seconds % 3600
             minutes == remainder \div 60
             seconds == remainder % 60
         IN  IF total_seconds < 60 THEN ToString(total_seconds) \o "s"
             ELSE IF hours > 0
                  THEN IF minutes # 0
                       THEN ToString(hours) \o "h" \o ToString(minutes) \o "m"
                       ELSE ToString(hours) \o "h"
                  ELSE IF seconds # 0
                       THEN ToString(minutes) \o "m" \o ToString(seconds) \o "s"
                       ELSE ToString(minutes) \o "m"

\* _calculate_duration_from_db: reads the row as it is in the table now.
calculate_duration_from_db(l, record_id) ==
    IF record_id \in 1..Len(l) /\ l[record_id].stoped_at # NULL
    THEN format_duration(l[record_id].created_at, l[record_id].stoped_at)
    ELSE "Unknown"

\* ------------------------------------------------------------------- focus
\* What the osascript call can answer: it raises (not installed, timeout), or
\* prints a line, given by its parts around ":".
FocusAnswers ==
    {[raised |-> TRUE, stdout |-> <<>>],
     [raised |-> FALSE, stdout |-> <<>>],
     [raised |-> FALSE, stdout |-> <<"NOTFRONT", "Safari">>],
     [raised |-> FALSE, stdout |-> <<"ERROR", "no window">>],
     [raised |-> FALSE, stdout |-> <<"U1">>],
     [raised |-> FALSE, stdout |-> <<"U2">>]}

StartsWithTag(parts, tag) == Len(parts) > 1 /\ parts[1] = tag

\* What is on the screen when the query runs: the application in front, the
\* session iTerm2 shows ("none": no window), and whether the osascript call
\* returns ("ok") or raises (not installed, timeout after 2 seconds).
Worlds ==
    [front : {"iTerm2", "Safari"}, active : {"U1", "U2", "none"},
     query : {"ok", "raise"}]

\* The AppleScript of _is_session_focused run by osascript: what it prints.
applescript(world) ==
    IF world.query = "raise" THEN [raised |-> TRUE, stdout |-> <<>>]
    ELSE IF world.front # "iTerm2"
         THEN [raised |-> FALSE, stdout |-> <<"NOTFRONT", world.front>>]
    ELSE IF world.active = "none"
         THEN [raised |-> FALSE, stdout |-> <<"ERROR", "no window">>]
    ELSE [raised |-> FALSE, stdout |-> <<world.active>>]

\* _is_session_focused comparing with the whole value of ITERM_SESSION_ID.
is_session_focused_RawCompare(env, answer) ==
    LET session_uuid == parse_iterm_session_id(env).uuid
    IN  IF session_uuid = "" THEN FALSE
        ELSE IF answer.raised THEN FALSE
        ELSE IF StartsWithTag(answer.stdout, "NOTFRONT")
                \/ StartsWithTag(answer.stdout, "ERROR") THEN FALSE
        ELSE Join(answer.stdout, ":") = parse_iterm_session_id(env).raw

\* _is_session_focused, given the answer of the osascript call (which is only
\* made when the environment names a session).
is_session_focused(env, answer) ==
    LET session_uuid == parse_iterm_session_id(env).uuid
    IN  IF session_uuid = "" THEN FALSE
        ELSE IF answer.raised THEN FALSE
        ELSE IF StartsWithTag(answer.stdout, "NOTFRONT")
                \/ StartsWithTag(answer.stdout, "ERROR") THEN FALSE
        ELSE Join(answer.stdout, ":") = session_uuid

\* ---------------------------------------------------------------- messages
\* A message is the sequence of its words; lower() maps each word.
Lower(w) ==
    CASE w = "Permission" -> "permission"
      [] w = "Waiting" -> "waiting"
      [] w = "Approval" -> "approval"
      [] w = "PERMISSION" -> "permission"
      [] w = "Choose" -> "choose"
      [] OTHER -> w

LowerAll(msg) == [i \in 1..Len(msg) |-> Lower(msg[i])]

\* phrase in text
Contains(text, phrase) ==
    \E i \in 0..(Len(text) - Len(phrase)) :
        SubSeq(text, i + 1, i + Len(phrase)) = phrase

is_waiting(message) ==
    \/ Contains(LowerAll(message), <<"waiting", "for", "your", "input">>)
    \/ Contains(LowerAll(message), <<"waiting", "for", "input">>)

\* notification_subtitle with the second rule tested first.
notification_subtitle_ActionFirst(message) ==
    IF Contains(LowerAll(message), <<"approval">>)
       \/ Contains(LowerAll(message), <<"choose", "an", "option">>)
    THEN "Action Required"
    ELSE IF Contains(LowerAll(message), <<"permission">>) THEN "Permission Required"
    ELSE "Notification"

notification_subtitle(message) ==
    IF Contains(LowerAll(message), <<"permission">>) THEN "Permission Required"
    ELSE IF Contains(LowerAll(message), <<"approval">>)
            \/ Contains(LowerAll(message), <<"choose", "an", "option">>)
         THEN "Action Required"
    ELSE "Notification"

\* title=os.path.basename(cwd) if cwd else "Claude Task"
notification_title(cwd) == IF cwd = <<>> THEN "Claude Task" ELSE basename(cwd)

\* ------------------------------------------------------------------- input
\* The JSON object on stdin: the fields it holds with a value (present), the
\* fields it holds as null (null), and the values.
Fields == {"session_id", "prompt", "cwd", "message", "hook_event_name"}

\* data.get(f): None (FALSE here) when the field is absent or null.
Has(data, f) == f \in data.present

\* missing = [f for f in REQUIRED_FIELDS[expected_event_name]
\*            if f not in data or data[f] is None]
missing_fields(data, expected_event_name) ==
    {f \in REQUIRED_FIELDS[expected_event_name] : ~Has(data, f)}

\* validate_input_data testing the required fields before the event name.
validate_input_data_MissingFirst(data, expected_event_name) ==
    IF expected_event_name \notin DOMAIN REQUIRED_FIELDS THEN "UnknownEvent"
    ELSE IF \E f \in REQUIRED_FIELDS[expected_event_name] : ~Has(data, f)
         THEN "Missing"
    ELSE IF ~Has(data, "hook_event_name")
            \/ data.hook_event_name # expected_event_name THEN "Mismatch"
    ELSE "ok"

validate_input_data(data, expected_event_name) ==
    IF expected_event_name \notin DOMAIN REQUIRED_FIELDS THEN "UnknownEvent"
    ELSE IF ~Has(data, "hook_event_name")
            \/ data.hook_event_name # expected_event_name THEN "Mismatch"
    ELSE IF \E f \in REQUIRED_FIELDS[expected_event_name] : ~Has(data, f)
         THEN "Missing"
    ELSE "ok"

\* The JSON object of a hook: the fields it holds with a value (present), the
\* fields it holds as null, and the values.
Data(k, present, sid, cwd, m) ==
    [present |-> present, null |-> {}, hook_event_name |-> k,
     session_id |-> sid, prompt |-> IF k = "UserPromptSubmit" THEN "fix it" ELSE "",
     cwd |-> cwd, message |-> m]

NoData == Data("", {}, "", <<>>, <<>>)

Input(argv, stdin, data, env) ==
    [argv |-> argv, stdin |-> stdin, data |-> data, env |-> env]

\* No invocation: the state of a process before its first and after a
\* handled event.
NoInput == Input(<<>>, "closed", NoData, <<>>)

ProjectDir == <<"Users", "me", "proj">>

\* The messages of Notification events: a waiting-for-input message that
\* also asks for a permission, a permission request, and another message.
Messages ==
    {<<"Permission", "needed", "Claude", "is", "Waiting", "for", "your", "input">>,
     <<"Claude", "needs", "your", "Permission">>,
     <<"Task", "update">>}

\* The values ITERM_SESSION_ID takes: unset, and "w0t0p0:U1".
EnvValues == {<<>>, <<"w0t0p0", "U1">>}

SubmitInputs ==
    {Input(<<"UserPromptSubmit">>, "json",
           Data("UserPromptSubmit", REQUIRED_FIELDS["UserPromptSubmit"],
                sid, ProjectDir, <<>>), e) :
        sid \in Sessions, e \in EnvValues}

StopInputs ==
    {Input(<<"Stop">>, "json",
           Data("Stop", REQUIRED_FIELDS["Stop"], sid, <<>>, <<>>), e) :
        sid \in Sessions, e \in EnvValues}

\* Notification events come with a cwd, and without one.
NotificationInputs ==
    {Input(<<"Notification">>, "json",
           Data("Notification", REQUIRED_FIELDS["Notification"] \cup {"cwd"},
                sid, ProjectDir, m), e) :
        sid \in Sessions, m \in Messages, e \in EnvValues}
    \cup
    {Input(<<"Notification">>, "json",
           Data("Notification", REQUIRED_FIELDS["Notification"],
                "s1", <<>>, <<"Task", "update">>), <<>>)}

\* The inputs main turns away: no argument, an unknown event, nothing or no
\* JSON on stdin, a missing field, a null field, another event's object.
RejectedInputs ==
    {Input(<<>>, "empty", NoData, <<>>),
     Input(<<"FakeEvent">>, "empty", NoData, <<>>),
     Input(<<"Stop">>, "empty", NoData, <<>>),
     Input(<<"Stop">>, "malformed", NoData, <<>>),
     Input(<<"Stop">>, "json", Data("Stop", {"hook_event_name"}, "", <<>>, <<>>), <<>>),
     Input(<<"UserPromptSubmit">>, "json",
           [Data("UserPromptSubmit", REQUIRED_FIELDS["UserPromptSubmit"] \ {"cwd"},
                 "s1", <<>>, <<>>) EXCEPT !.null = {"cwd"}], <<>>),
     Input(<<"Notification">>, "json",
           Data("Stop", REQUIRED_FIELDS["Stop"], "s1", <<>>, <<>>), <<>>)}

\* What one invocation is started with: argv[1:], stdin and ITERM_SESSION_ID.
Inputs == SubmitInputs \cup StopInputs \cup NotificationInputs \cup RejectedInputs

\* The inputs of the overlapping invocations: the events of the sessions,
\* from a terminal without ITERM_SESSION_ID.
ConcInputs ==
    {in \in SubmitInputs \cup StopInputs \cup NotificationInputs :
        in.env = <<>> /\ (in.argv[1] = "Notification" => is_waiting(in.data.message))}

NoLoc ==
    [record_id |-> NULL, cwd |-> <<>>, seq |-> NULL, duration |-> "",
     title |-> "", subtitle |-> ""]

\* data.get("cwd", ""): the value, "" when absent, None when null; both are
\* falsy where the code tests it.
DataCwd(data) == IF Has(data, "cwd") THEN data.cwd ELSE <<>>

\* One call and how it ended: "ok", "nonzero" (the command ran and failed),
\* "raise" (the call raised an exception), or the value returned.
Call(cmd, result) == [cmd |-> cmd, result |-> result]

\* No function is being applied on its own.
NoUnit == [fn |-> "", args |-> <<>>, result |-> <<>>]

Init ==
    /\ ledger = <<>>
    /\ now = 0
    /\ pending = {}
    /\ pc = [p \in Procs |-> "idle"]
    /\ ev = [p \in Procs |-> NoInput]
    /\ loc = [p \in Procs |-> NoLoc]
    /\ trace = [p \in Procs |-> <<>>]
    /\ exit_code = [p \in Procs |-> 0]
    /\ hist = [s \in Sessions |-> "expect_submit"]
    /\ unit = NoUnit

\* A finished invocation is gone before anything else happens: invocation p
\* takes its step at label only when no process is exiting.
Exiting == \E p \in Procs : pc[p] = "done"

At(p, label) == pc[p] = label /\ ~Exiting

\* ------------------------------------------------------------------ clock
\* CURRENT_TIMESTAMP has a resolution of one second: the statements run
\* between two ticks read the same time.
Tick ==
    /\ ~Exiting
    /\ now + TickSeconds <= MaxTicks * TickSeconds
    /\ now' = now + TickSeconds
    /\ UNCHANGED <<ledger, pending, pc, ev, loc, trace, exit_code, hist, unit>>

\* ------------------------------------------------------------------- main
\* The rows the running UserPromptSubmit invocations are still to insert.
Inserting == Cardinality({q \in Procs : pc[q] \in {"dismiss", "insert"}})

\* Whether the UserPromptSubmit and Stop events of a session alternate.
NextHist(h, kind) ==
    CASE kind = "UserPromptSubmit" ->
            IF h = "expect_submit" THEN "expect_stop" ELSE "bad"
      [] kind = "Stop" ->
            IF h = "expect_stop" THEN "expect_submit" ELSE "bad"
      [] OTHER -> h

\* FirstStep with the subtitle keywords tested before the waiting phrases.
FirstStep_KeywordFirst(kind, data) ==
    CASE kind = "UserPromptSubmit" -> "dismiss"
      [] kind = "Stop" -> "stop_select"
      [] kind = "Notification" ->
            IF notification_subtitle(data.message) # "Notification" THEN "notify"
            ELSE IF is_waiting(data.message) THEN "wait_update"
            ELSE "notify"

\* The first step of the handler main dispatches to.
FirstStep(kind, data) ==
    CASE kind = "UserPromptSubmit" -> "dismiss"
      [] kind = "Stop" -> "stop_select"
      [] kind = "Notification" ->
            IF is_waiting(data.message) THEN "wait_update" ELSE "notify"

\* main_early_exit without the call of validate_input_data.
main_early_exit_NoValidation(in) ==
    IF Len(in.argv) < 1 THEN 0
    ELSE IF in.argv[1] \notin EVENT_HANDLERS THEN 1
    ELSE IF in.stdin = "empty" THEN 0
    ELSE IF in.stdin = "malformed" THEN 1
    ELSE NULL

\* How main ends before any handler runs: the exit code, or NULL when the
\* input is dispatched.
main_early_exit(in) ==
    IF Len(in.argv) < 1 THEN 0
    ELSE IF in.argv[1] \notin EVENT_HANDLERS THEN 1
    ELSE IF in.stdin = "empty" THEN 0
    ELSE IF in.stdin = "malformed" THEN 1
    ELSE IF validate_input_data(in.data, in.argv[1]) # "ok" THEN 1
    ELSE NULL

\* main up to the call of the handler.  A Notification handler starts with
\* its title and subtitle computed from the message.  With alternate, only
\* the event the session expects next is let in.
main(p, in, alternate) ==
    /\ At(p, "idle")
    /\ ev' = [ev EXCEPT ![p] = in]
    /\ trace' = [trace EXCEPT ![p] = <<>>]
    /\ IF main_early_exit(in) # NULL
       THEN /\ pc' = [pc EXCEPT ![p] = "done"]
            /\ exit_code' = [exit_code EXCEPT ![p] = main_early_exit(in)]
            /\ loc' = [loc EXCEPT ![p] = NoLoc]
            /\ hist' = hist
       ELSE /\ in.argv[1] = "UserPromptSubmit" =>
                    Len(ledger) + Inserting < MaxRecords
            /\ pc' = [pc EXCEPT ![p] = FirstStep(in.argv[1], in.data)]
            /\ exit_code' = [exit_code EXCEPT ![p] = 0]
            /\ loc' = [loc EXCEPT ![p] =
                    IF in.argv[1] = "Notification"
                    THEN [NoLoc EXCEPT
                            !.cwd = DataCwd(in.data),
                            !.title = notification_title(DataCwd(in.data)),
                            !.subtitle = notification_subtitle(in.data.message)]
                    ELSE NoLoc]
            /\ IF alternate
               THEN /\ NextHist(hist[in.data.session_id], in.argv[1]) # "bad"
                    /\ hist' = [hist EXCEPT ![in.data.session_id] =
                                    NextHist(@, in.argv[1])]
               ELSE hist' = hist
    /\ UNCHANGED <<ledger, now, pending, unit>>

\* A handler returns (or raises) to main, which exits: the event it was
\* started for, the calls it made and its exit code remain until the process
\* is gone.
Return(p, code) ==
    /\ pc' = [pc EXCEPT ![p] = "done"]
    /\ ev' = [ev EXCEPT ![p] = Input(ev[p].argv, "handled", NoData, <<>>)]
    /\ loc' = [loc EXCEPT ![p] = NoLoc]
    /\ exit_code' = [exit_code EXCEPT ![p] = code]

\* ----------------------------------------------------------- dispatcher
\* How a collaborator call can end.
Outcomes == {"ok", "nonzero", "raise"}

\* _flash_bg: open /dev/tty, set the flash color, wait, set the background
\* color back; a failure to open the terminal is caught and logged.
flash_bg(tty) ==
    IF tty = "raise" THEN <<Call(<<"open", "/dev/tty">>, "raise")>>
    ELSE <<Call(<<"open", "/dev/tty">>, "ok"),
           Call(<<"write", "SetColors=bg=" \o FLASH_COLOR>>, "ok"),
           Call(<<"sleep", "0.2">>, "ok"),
           Call(<<"write", "SetColors=bg=" \o BG_COLOR>>, "ok")>>

\* What _is_session_focused can come to in an environment: whether the
\* osascript call raised, and the value returned.
FocusResults(env) ==
    {[raised |-> a.raised, focused |-> is_session_focused(env, a)] :
        a \in FocusAnswers}

\* _is_session_focused as send_notification calls it: the osascript call,
\* made only with a session uuid, and the value returned.
focus_query(env, focus) ==
    (IF parse_iterm_session_id(env).uuid = "" THEN <<>>
     ELSE <<Call(<<"osascript">>, IF focus.raised THEN "raise" ELSE "ok")>>)
    \o <<Call(<<"_is_session_focused">>, IF focus.focused THEN "True" ELSE "False")>>

\* group_tag with the whole value of ITERM_SESSION_ID.
group_tag_Raw(env) ==
    IF parse_iterm_session_id(env).uuid # ""
    THEN parse_iterm_session_id(env).raw
    ELSE "claude-code"

\* "-group", session_uuid or "claude-code"
group_tag(env) ==
    IF parse_iterm_session_id(env).uuid # ""
    THEN parse_iterm_session_id(env).uuid
    ELSE "claude-code"

\* The terminal-notifier command of send_notification (the second line of
\* the subtitle, the wall-clock time of the call, is not part of the model).
notifier_cmd(env, title, subtitle) ==
    <<"terminal-notifier", "-sound", "default", "-title", title,
      "-subtitle", subtitle, "-group", group_tag(env)>>
    \o (IF parse_iterm_session_id(env).uuid # ""
        THEN <<"-execute",
               "activate-session.sh \"" \o parse_iterm_session_id(env).uuid \o "\"">>
        ELSE <<"-activate", "com.googlecode.iterm2">>)

afplay_cmd == <<"afplay", "/System/Library/Sounds/Glass.aiff">>

\* send_notification with the focus test ignored: always the alert branch.
send_notification_AlwaysAlert(env, title, subtitle, focus, afplay, notifier, tty) ==
    [calls |-> focus_query(env, focus)
               \o <<Call(notifier_cmd(env, title, subtitle), notifier)>>
               \o (IF notifier = "raise" THEN <<>> ELSE flash_bg(tty)),
     raised |-> FALSE,
     alert |-> IF notifier = "ok" THEN group_tag(env) ELSE ""]

\* send_notification, given how each collaborator answers: the calls it makes,
\* whether an exception leaves it (raised), and the group of the alert it
\* has put up ("" for none).
send_notification(env, title, subtitle, focus, afplay, notifier, tty) ==
    IF focus.focused
    THEN [calls |-> focus_query(env, focus)
                    \o <<Call(afplay_cmd, afplay)>>
                    \o (IF afplay = "raise" THEN <<>>
                        ELSE <<Call(<<"sleep", "0.7">>, "ok")>> \o flash_bg(tty)),
          raised |-> afplay = "raise",
          alert |-> ""]
    ELSE [calls |-> focus_query(env, focus)
                    \o <<Call(notifier_cmd(env, title, subtitle), notifier)>>
                    \o (IF notifier = "raise" THEN <<>> ELSE flash_bg(tty)),
          raised |-> FALSE,
          alert |-> IF notifier = "ok" THEN group_tag(env) ELSE ""]

\* The send_notification call that ends handle_stop and handle_notification.
\* Popen starts afplay without waiting, so it either starts or raises; an
\* exception that leaves send_notification reaches main, which exits with 1.
\* Only the collaborators of the branch taken are asked.
Notify(p) ==
    /\ At(p, "notify")
    /\ \E focus \in FocusResults(ev[p].env), cue \in Outcomes, tty \in {"ok", "raise"} :
        LET afplay == IF focus.focused THEN cue ELSE "ok"
            notifier == IF focus.focused THEN "ok" ELSE cue
            r == send_notification(ev[p].env, loc[p].title, loc[p].subtitle,
                                   focus, afplay, notifier, tty)
        IN  /\ focus.focused => cue # "nonzero"
            /\ trace' = [trace EXCEPT ![p] = @ \o r.calls]
            /\ pending' = IF r.alert = "" THEN pending
                          ELSE pending \cup {r.alert}
            /\ Return(p, IF r.raised THEN 1 ELSE 0)
    /\ UNCHANGED <<ledger, now, hist, unit>>

\* The process of a finished invocation goes away, before anything else
\* happens.
Exit(p) ==
    /\ pc[p] = "done"
    /\ pc' = [pc EXCEPT ![p] = "idle"]
    /\ ev' = [ev EXCEPT ![p] = NoInput]
    /\ loc' = [loc EXCEPT ![p] = NoLoc]
    /\ trace' = [trace EXCEPT ![p] = <<>>]
    /\ exit_code' = [exit_code EXCEPT ![p] = 0]
    /\ UNCHANGED <<ledger, now, pending, hist, unit>>

\* ------------------------------------------------ handle_user_prompt_submit
\* terminal-notifier -remove <uuid>, run with check=False outside any try: a
\* failing command is ignored, a missing one raises FileNotFoundError, which
\* main turns into exit code 1.
Dismiss(p) ==
    /\ At(p, "dismiss")
    /\ LET session_uuid == parse_iterm_session_id(ev[p].env).uuid
       IN  IF session_uuid = ""
           THEN /\ pc' = [pc EXCEPT ![p] = "insert"]
                /\ UNCHANGED <<pending, trace, exit_code, ev, loc>>
           ELSE \E r \in Outcomes :
                /\ trace' = [trace EXCEPT ![p] = Append(@,
                        Call(<<"terminal-notifier", "-remove", session_uuid>>, r))]
                /\ pending' = IF r = "ok" THEN pending \ {session_uuid}
                              ELSE pending
                /\ IF r = "raise" THEN Return(p, 1)
                   ELSE /\ pc' = [pc EXCEPT ![p] = "insert"]
                        /\ UNCHANGED <<exit_code, ev, loc>>
    /\ UNCHANGED <<ledger, now, hist, unit>>

Insert(p) ==
    /\ At(p, "insert")
    /\ ledger' = InsertPrompt(ledger, ev[p].data.session_id, ev[p].data.prompt,
                              ev[p].data.cwd, now)
    /\ Return(p, 0)
    /\ UNCHANGED <<now, pending, trace, hist, unit>>

\* -------------------------------------------------------------- handle_stop
StopSelect(p) ==
    /\ At(p, "stop_select")
    /\ LET rows == SelectOpenPrompt(ledger, ev[p].data.session_id)
       IN  IF rows = {}
           THEN Return(p, 0)
           ELSE \E id \in rows :
                /\ loc' = [loc EXCEPT ![p].record_id = id,
                                      ![p].cwd = ledger[id].cwd]
                /\ pc' = [pc EXCEPT ![p] = "stop_update"]
                /\ UNCHANGED <<ev, exit_code>>
    /\ UNCHANGED <<ledger, now, pending, trace, hist, unit>>

StopUpdate(p) ==
    /\ At(p, "stop_update")
    /\ ledger' = UpdateStopedAt(ledger, loc[p].record_id, now)
    /\ pc' = [pc EXCEPT ![p] = "stop_read"]
    /\ UNCHANGED <<now, pending, ev, loc, trace, exit_code, hist, unit>>

\* "job#{seq} done, duration: {duration}"
stop_subtitle(seq, duration) ==
    "job#" \o ToString(seq) \o " done, duration: " \o duration

\* The seq and the duration are read back from the table after the commit.
StopRead(p) ==
    /\ At(p, "stop_read")
    /\ LET seq == ledger[loc[p].record_id].seq
           duration == calculate_duration_from_db(ledger, loc[p].record_id)
       IN  loc' = [loc EXCEPT ![p].seq = seq,
                              ![p].duration = duration,
                              ![p].title = notification_title(loc[p].cwd),
                              ![p].subtitle = stop_subtitle(seq, duration)]
    /\ pc' = [pc EXCEPT ![p] = "notify"]
    /\ UNCHANGED <<ledger, now, pending, ev, trace, exit_code, hist, unit>>

\* ------------------------------------------------------ handle_notification
\* The waiting-for-input branch: one UPDATE, no notification.
WaitUpdate(p) ==
    /\ At(p, "wait_update")
    /\ ledger' \in UpdateLastWaitUserAt(ledger, ev[p].data.session_id, now)
    /\ Return(p, 0)
    /\ UNCHANGED <<now, pending, trace, hist, unit>>

\* ---------------------------------------------------------- specifications
\* The hook events arrive one after the other, in any order: one invocation
\* at a time.
Next ==
    \/ Tick
    \/ \E in \in Inputs : main(1, in, FALSE)
    \/ Dismiss(1)
    \/ Insert(1)
    \/ StopSelect(1)
    \/ StopUpdate(1)
    \/ StopRead(1)
    \/ WaitUpdate(1)
    \/ Notify(1)
    \/ Exit(1)

Spec == Init /\ [][Next]_vars

\* As Spec, with the UserPromptSubmit and Stop events of each session
\* alternating, UserPromptSubmit first.
NextAlt ==
    \/ Tick
    \/ \E in \in Inputs : main(1, in, TRUE)
    \/ Dismiss(1)
    \/ Insert(1)
    \/ StopSelect(1)
    \/ StopUpdate(1)
    \/ StopRead(1)
    \/ WaitUpdate(1)
    \/ Notify(1)
    \/ Exit(1)

SpecAlt == Init /\ [][NextAlt]_vars

\* Invocations overlap: each is its own process.
NextConc ==
    \/ Tick
    \/ \E p \in Procs, in \in ConcInputs : main(p, in, FALSE)
    \/ \E p \in Procs : Dismiss(p)
    \/ \E p \in Procs : Insert(p)
    \/ \E p \in Procs : StopSelect(p)
    \/ \E p \in Procs : StopUpdate(p)
    \/ \E p \in Procs : StopRead(p)
    \/ \E p \in Procs : WaitUpdate(p)
    \/ \E p \in Procs : Notify(p)
    \/ \E p \in Procs : Exit(p)

SpecConc == Init /\ [][NextConc]_vars

\* ------------------------------------------ functions applied on their own
\* The program at rest, with one function about to be applied to arguments
\* drawn from units.
InitUnit(units) ==
    /\ ledger = <<>>
    /\ now = 0
    /\ pending = {}
    /\ pc = [p \in Procs |-> "idle"]
    /\ ev = [p \in Procs |-> NoInput]
    /\ loc = [p \in Procs |-> NoLoc]
    /\ trace = [p \in Procs |-> <<>>]
    /\ exit_code = [p \in Procs |-> 0]
    /\ hist = [s \in Sessions |-> "expect_submit"]
    /\ unit \in units

\* The function returns: its result is kept next to its arguments.
Returns(fn, value) ==
    /\ unit.fn = fn
    /\ unit.result = <<>>
    /\ unit' = [unit EXCEPT !.result = <<value>>]
    /\ UNCHANGED <<ledger, now, pending, pc, ev, loc, trace, exit_code, hist>>

\* The values of ITERM_SESSION_ID: unset, a bare uuid, "w0t0p0:U1",
\* "w0t0p0:U2", "w0t0p0:" and "w1:t0:U1".
FocusEnvs ==
    {<<>>, <<"U1">>, <<"w0t0p0", "U1">>, <<"w0t0p0", "U2">>, <<"w0t0p0", "">>,
     <<"w1", "t0", "U1">>}

FocusUnits ==
    {[fn |-> "_is_session_focused", args |-> <<env, world>>, result |-> <<>>] :
        env \in FocusEnvs, world \in Worlds}

ApplyFocus ==
    Returns("_is_session_focused",
            is_session_focused(unit.args[1], applescript(unit.args[2])))

\* Messages without a waiting phrase, with the keywords in either order and
\* either case, with parts of the phrase, and without any.
ClassifyMessages ==
    {<<"Claude", "needs", "your", "Permission">>,
     <<"permission", "and", "approval">>,
     <<"approval", "then", "PERMISSION">>,
     <<"Approval", "needed">>,
     <<"please", "Choose", "an", "option">>,
     <<"choose", "an", "option", "with", "permission">>,
     <<"choose", "option">>,
     <<"an", "option", "choose">>,
     <<"Task", "update">>,
     <<>>}

\* cwd values: "", "/Users/me/proj", "/tmp", and "/Users/me/" (which ends
\* with the separator).
ClassifyDirs == {<<>>, ProjectDir, <<"tmp">>, <<"Users", "me", "">>}

\* The Notification objects: cwd present, absent, or null.
ClassifyUnits ==
    {[fn |-> "handle_notification", args |-> <<d>>, result |-> <<>>] :
        d \in {Data("Notification", REQUIRED_FIELDS["Notification"] \cup {"cwd"},
                     "s1", c, m) : c \in ClassifyDirs, m \in ClassifyMessages}
               \cup
               {[Data("Notification", REQUIRED_FIELDS["Notification"],
                      "s1", <<>>, m) EXCEPT !.null = n] :
                    m \in ClassifyMessages, n \in {{}, {"cwd"}}}}

\* The title and the subtitle handle_notification passes to send_notification.
ApplyClassify ==
    Returns("handle_notification",
            [title |-> notification_title(DataCwd(unit.args[1])),
             subtitle |-> notification_subtitle(unit.args[1].message)])

\* Event names: those of the program and another one.
EventNames == EVENT_HANDLERS \cup {"FakeEvent"}

\* The objects validate_input_data is given: every field with a value, null
\* or absent, whatever the event name.
ValidateUnits ==
    {[fn |-> "validate_input_data",
      args |-> <<[Data(k, present \ null, "s1", ProjectDir, <<"Task", "update">>)
                    EXCEPT !.null = null], expected>>,
      result |-> <<>>] :
        k \in {"Stop", "Notification", "FakeEvent"},
        present \in SUBSET Fields,
        null \in {{}, {"cwd"}, {"session_id"}, {"hook_event_name"}},
        expected \in EventNames}

\* validate_input_data returns, or raises ValueError with the missing fields
\* in its message.
ApplyValidate ==
    Returns("validate_input_data",
            LET outcome == validate_input_data(unit.args[1], unit.args[2])
            IN  [outcome |-> outcome,
                 missing |-> IF outcome = "Missing"
                             THEN missing_fields(unit.args[1], unit.args[2])
                             ELSE {}])

\* Differences between two timestamps, in seconds: around each limit of
\* _format_duration, the examples of its tests, and negative ones.
DurationSamples ==
    {0, 1, 45, 59, 60, 61, 119, 120, 150, 180, 3540, 3599, 3600, 3601, 3659,
     3660, 3661, 4500, 7199, 7200, 7260, 86400, 90061, -1, -30, -60, -3700}

\* The arguments of _format_duration: two timestamps, or None or a text
\* that is no timestamp in either place.
DurationUnits ==
    {[fn |-> "_format_duration", args |-> <<start, start + d>>, result |-> <<>>] :
        start \in {4000, 4030}, d \in DurationSamples}
    \cup
    {[fn |-> "_format_duration", args |-> <<a, b>>, result |-> <<>>] :
        a, b \in {NULL, NotATime, 4000}}

ApplyFormat ==
    Returns("_format_duration", format_duration(unit.args[1], unit.args[2]))

InitFns ==
    \/ InitUnit(FocusUnits)
    \/ InitUnit(DurationUnits)
    \/ InitUnit(ValidateUnits)
    \/ InitUnit(ClassifyUnits)

NextFns ==
    \/ ApplyFocus
    \/ ApplyFormat
    \/ ApplyValidate
    \/ ApplyClassify

SpecFns == InitFns /\ [][NextFns]_vars

\* ------------------------------------------------------------- properties
\* Invocation p has handled an event of this kind and is about to exit.
HandledDone(p, kind) ==
    pc[p] = "done" /\ ev[p].argv = <<kind>> /\ ev[p].stdin = "handled"

\* C1: whatever the interleaving of the invocations, the seq values of the N
\* rows of a session are exactly 1..N (none NULL, none twice, none missing),
\* increasing in the order the rows were created.
C1_SeqContiguous ==
    \A sid \in Sessions :
        LET ids == RowsOf(ledger, sid)
        IN  /\ {ledger[i].seq : i \in ids} = 1..Cardinality(ids)
            /\ \A i, j \in ids : i < j => ledger[i].seq < ledger[j].seq

\* Two rows of one session, the second inserted by invocation 2 while
\* invocation 1 was running.
C1_Witness ==
    /\ Len(ledger) = 2
    /\ ledger[1].session_id = ledger[2].session_id
    /\ HandledDone(2, "UserPromptSubmit")
    /\ pc[1] \notin {"idle", "done"}

\* C2: when the UserPromptSubmit and Stop events of each session alternate,
\* every state between two invocations has at most one open row per session.
C2_AtMostOneOpen ==
    (\A p \in Procs : pc[p] = "idle") =>
        \A sid \in Sessions : Cardinality(OpenRowsOf(ledger, sid)) <= 1

\* A session in its second cycle: the first row closed, the second open.
C2_Witness ==
    /\ \A p \in Procs : pc[p] = "idle"
    /\ Len(ledger) = 2
    /\ ledger[1].session_id = ledger[2].session_id
    /\ ledger[1].stoped_at # NULL
    /\ ledger[2].stoped_at = NULL
    /\ hist[ledger[2].session_id] = "expect_stop"

\* C3: when a session has several open rows, the UPDATE of a Stop closes the
\* open row created last (the one with the greatest id) and leaves the other
\* open rows open.
C3_StopClosesLastCreated ==
    [][\A p \in Procs :
        (pc[p] = "stop_update" /\ pc'[p] = "stop_read") =>
            LET open == OpenRowsOf(ledger, ev[p].data.session_id)
            IN  Cardinality(open) > 1 =>
                    /\ ledger'[SetMax(open)].stoped_at # NULL
                    /\ \A i \in open \ {SetMax(open)} :
                            ledger'[i].stoped_at = NULL]_vars

\* C4: a Stop for a session without an open row changes neither the table nor
\* the alerts, makes no collaborator call and exits with 0.
C4_StopWithoutOpenRow ==
    [][\A p \in Procs :
        (/\ pc[p] = "stop_select"
         /\ pc'[p] # "stop_select"
         /\ OpenRowsOf(ledger, ev[p].data.session_id) = {}) =>
            /\ ledger' = ledger
            /\ pending' = pending
            /\ pc'[p] = "done"
            /\ trace'[p] = <<>>
            /\ exit_code'[p] = 0]_vars

\* A Stop has found the only row closed and is done without a call.
C4_Witness ==
    /\ HandledDone(1, "Stop")
    /\ trace[1] = <<>>
    /\ exit_code[1] = 0
    /\ Len(ledger) = 1
    /\ ledger[1].stoped_at # NULL

\* C5: stoped_at of a row is set once: no step, of whatever invocation,
\* changes a stoped_at that is set or sets it back to NULL.
C5_StopedAtSetOnce ==
    [][\A i \in 1..Len(ledger) :
        ledger[i].stoped_at # NULL =>
            /\ i <= Len(ledger')
            /\ ledger'[i].stoped_at = ledger[i].stoped_at]_vars

\* The calls of invocation p that are send_notification's focus test: one
\* for each call of send_notification.
NotifyCalls(p) ==
    {i \in 1..Len(trace[p]) : trace[p][i].cmd = <<"_is_session_focused">>}

\* C6: when the UserPromptSubmit and Stop events of a session alternate, a
\* Stop reaches send_notification with a row it has closed and the subtitle
\* "job#{seq} done, duration: {d}" of that row, d never "Unknown", and every
\* Stop has called send_notification exactly once when it is done.
C6_SubmitThenStop ==
    \A p \in Procs :
        /\ (pc[p] = "notify" /\ ev[p].argv = <<"Stop">>) =>
                LET row == ledger[loc[p].record_id]
                    d == format_duration(row.created_at, row.stoped_at)
                IN  /\ row.session_id = ev[p].data.session_id
                    /\ row.stoped_at # NULL
                    /\ OpenRowsOf(ledger, row.session_id) = {}
                    /\ d # "Unknown"
                    /\ loc[p].subtitle =
                        "job#" \o ToString(row.seq) \o " done, duration: " \o d
        /\ HandledDone(p, "Stop") => Cardinality(NotifyCalls(p)) = 1

\* C7: a UserPromptSubmit ends with exit code 0 and its row in the table,
\* whatever the outcome of terminal-notifier -remove.
C7_DismissBestEffort ==
    \A p \in Procs :
        HandledDone(p, "UserPromptSubmit") =>
            /\ exit_code[p] = 0
            /\ ledger # <<>>
            /\ Last(ledger).stoped_at = NULL

\* C8: an invocation that has called send_notification ends with exit code
\* 0, however the collaborators answered.
C8_NotifyNeverAborts ==
    \A p \in Procs :
        (pc[p] = "done" /\ NotifyCalls(p) # {}) => exit_code[p] = 0

\* C9: a call of send_notification uses one alert kind, chosen by the focus
\* test: focused, afplay is started and terminal-notifier is not called;
\* not focused, terminal-notifier is called with -group (the session uuid,
\* or "claude-code") and a click action (-execute with the session uuid, or
\* -activate of the terminal application without one) and afplay is not
\* started.
C9_OneAlertKind ==
    [][\A p \in Procs :
        (pc[p] = "notify" /\ pc'[p] = "done") =>
            LET new == SubSeq(trace'[p], Len(trace[p]) + 1, Len(trace'[p]))
                uuid == parse_iterm_session_id(ev[p].env).uuid
                answers == {i \in 1..Len(new) :
                                new[i].cmd = <<"_is_session_focused">>}
                sounds == {i \in 1..Len(new) : new[i].cmd[1] = "afplay"}
                alerts == {i \in 1..Len(new) : new[i].cmd[1] = "terminal-notifier"}
                Arg(cmd, flag, value) ==
                    \E k \in 1..(Len(cmd) - 1) : cmd[k] = flag /\ cmd[k + 1] = value
            IN  /\ Cardinality(answers) = 1
                /\ \A i \in answers :
                    IF new[i].result = "True"
                    THEN /\ Cardinality(sounds) = 1
                         /\ alerts = {}
                         /\ pending' = pending
                    ELSE /\ sounds = {}
                         /\ Cardinality(alerts) = 1
                         /\ \A a \in alerts :
                              /\ Arg(new[a].cmd, "-group",
                                     IF uuid # "" THEN uuid ELSE "claude-code")
                              /\ IF uuid # ""
                                 THEN Arg(new[a].cmd, "-execute",
                                          "activate-session.sh \"" \o uuid \o "\"")
                                 ELSE Arg(new[a].cmd, "-activate",
                                          "com.googlecode.iterm2")]_vars

\* A Stop in the focused session is done: afplay was started, no alert is up.
C9_Witness ==
    /\ HandledDone(1, "Stop")
    /\ \E i \in 1..Len(trace[1]) :
            trace[1][i] = Call(<<"_is_session_focused">>, "True")
    /\ \E i \in 1..Len(trace[1]) : trace[1][i].cmd[1] = "afplay"
    /\ pending = {}

\* C10: every call of send_notification gets to _flash_bg, in both branches,
\* and a write of the flash color is followed by a write of the background
\* color.
C10_FlashInBothBranches ==
    \A p \in Procs :
        pc[p] = "done" =>
            /\ \A i \in NotifyCalls(p) :
                \E j \in (i + 1)..Len(trace[p]) :
                    trace[p][j].cmd = <<"open", "/dev/tty">>
            /\ \A i \in 1..Len(trace[p]) :
                trace[p][i].cmd = <<"write", "SetColors=bg=" \o FLASH_COLOR>> =>
                    \E j \in (i + 1)..Len(trace[p]) :
                        trace[p][j].cmd = <<"write", "SetColors=bg=" \o BG_COLOR>>

\* C11: _is_session_focused returns True exactly when ITERM_SESSION_ID is
\* set, the osascript call returned, iTerm2 is in front and the session it
\* shows is the one named by the part of ITERM_SESSION_ID after the last ":"
\* (the whole value without ":"); otherwise it returns False; it always
\* returns.
C11_FocusedOnlyWhen ==
    (unit.fn = "_is_session_focused" /\ unit.result # <<>>) =>
        LET env == unit.args[1]
            world == unit.args[2]
        IN  /\ unit.result[1] \in BOOLEAN
            /\ unit.result[1] =
                (/\ env # <<>>
                 /\ world.query = "ok"
                 /\ world.front = "iTerm2"
                 /\ world.active = env[Len(env)])

\* "w0t0p0:U1" with iTerm2 in front showing U1: True was returned.
C11_Witness ==
    /\ unit.fn = "_is_session_focused"
    /\ unit.args[1] = <<"w0t0p0", "U1">>
    /\ unit.result = <<TRUE>>

\* C12: a waiting-for-input Notification for a session with rows sets
\* lastWaitUserAt of the row of that session created last (the greatest id),
\* open or closed, and changes nothing else in the table.
C12_WaitMarksNewestRow ==
    [][\A p \in Procs :
        (pc[p] = "wait_update" /\ pc'[p] = "done"
         /\ RowsOf(ledger, ev[p].data.session_id) # {}) =>
            ledger' = [ledger EXCEPT
                ![SetMax(RowsOf(ledger, ev[p].data.session_id))].lastWaitUserAt = now]]_vars

\* C13: a waiting-for-input Notification for a session without rows leaves
\* the table as it is and ends with exit code 0, no call made.
C13_WaitWithoutRows ==
    [][\A p \in Procs :
        (pc[p] = "wait_update" /\ pc'[p] # "wait_update"
         /\ RowsOf(ledger, ev[p].data.session_id) = {}) =>
            /\ ledger' = ledger
            /\ pc'[p] = "done"
            /\ exit_code'[p] = 0
            /\ trace'[p] = <<>>]_vars

\* A waiting-for-input Notification is done without a call, while the only
\* row, of the other session, has no lastWaitUserAt.
C13_Witness ==
    /\ HandledDone(1, "Notification")
    /\ trace[1] = <<>>
    /\ exit_code[1] = 0
    /\ Len(ledger) = 1
    /\ ledger[1].lastWaitUserAt = NULL

\* C14: a Notification whose message holds a waiting-for-input phrase goes to
\* the UPDATE only, whatever else the message holds, and ends without a
\* collaborator call and without touching the alerts; any other Notification
\* leaves the table alone and calls send_notification exactly once.
C14_WaitingNeverNotifies ==
    [][\A p \in Procs :
        /\ (pc[p] = "idle" /\ pc'[p] \in {"wait_update", "notify"}
            /\ ev'[p].argv = <<"Notification">>) =>
                /\ pc'[p] = "wait_update" <=> is_waiting(ev'[p].data.message)
                /\ trace'[p] = <<>>
                /\ ledger' = ledger
                /\ pending' = pending
        /\ (pc[p] = "wait_update" /\ pc'[p] # "wait_update") =>
                /\ pc'[p] = "done"
                /\ trace'[p] = <<>>
                /\ pending' = pending
        /\ (pc[p] = "notify" /\ pc'[p] # "notify"
            /\ ev[p].argv = <<"Notification">>) =>
                /\ pc'[p] = "done"
                /\ ledger' = ledger
                /\ Cardinality({i \in 1..Len(trace'[p]) :
                        trace'[p][i].cmd = <<"_is_session_focused">>}) = 1]_vars

\* A waiting-for-input Notification (its message names a permission too) is
\* done: lastWaitUserAt is set and no call was made.
C14_Witness ==
    /\ HandledDone(1, "Notification")
    /\ trace[1] = <<>>
    /\ Len(ledger) = 1
    /\ ledger[1].lastWaitUserAt # NULL
    /\ \A m \in Messages :
            is_waiting(m) => notification_subtitle(m) = "Permission Required"

\* C15: for a Notification that is not a waiting signal the subtitle is
\* "Permission Required" when the lower-cased message holds "permission";
\* otherwise "Action Required" when it holds "approval" or "choose an
\* option"; otherwise "Notification"; the title is the last component of
\* cwd, or "Claude Task" when cwd is absent, null or empty.
C15_SubtitleFirstMatch ==
    (unit.fn = "handle_notification" /\ unit.result # <<>>
     /\ ~is_waiting(unit.args[1].message)) =>
        LET d == unit.args[1]
            low == LowerAll(d.message)
            word(w) == \E i \in 1..Len(low) : low[i] = w
            phrase == \E i \in 1..(Len(low) - 2) :
                        low[i] = "choose" /\ low[i + 1] = "an" /\ low[i + 2] = "option"
        IN  /\ unit.result[1].subtitle =
                    (IF word("permission") THEN "Permission Required"
                     ELSE IF word("approval") \/ phrase THEN "Action Required"
                     ELSE "Notification")
            /\ unit.result[1].title =
                    (IF "cwd" \in d.present /\ d.cwd # <<>>
                     THEN d.cwd[Len(d.cwd)]
                     ELSE "Claude Task")

\* A message with both keywords and a cwd got the first rule's subtitle and
\* the directory's name.
C15_Witness ==
    /\ unit.fn = "handle_notification"
    /\ unit.args[1].message = <<"approval", "then", "PERMISSION">>
    /\ unit.result = <<[title |-> "proj", subtitle |-> "Permission Required"]>>

\* C16: main ends at once, with the table and the alerts unchanged and no
\* collaborator call, with exit code 0 when there is no argument, 1 when the
\* event is unknown, and for a known event 0 when stdin is empty, 1 when
\* stdin is no JSON and 1 when the object fails validation.
C16_InputFailFast ==
    [][\A p \in Procs :
        (pc[p] = "idle" /\ pc'[p] # "idle") =>
            LET in == ev'[p]
                known == Len(in.argv) > 0
                         /\ in.argv[1] \in {"UserPromptSubmit", "Stop", "Notification"}
                code == IF Len(in.argv) = 0 THEN 0
                        ELSE IF ~known THEN 1
                        ELSE IF in.stdin = "empty" THEN 0
                        ELSE 1
                rejected ==
                    \/ ~known
                    \/ in.stdin \in {"empty", "malformed"}
                    \/ in.data.hook_event_name # in.argv[1]
                    \/ "hook_event_name" \notin in.data.present
                    \/ \E f \in REQUIRED_FIELDS[in.argv[1]] : f \notin in.data.present
            IN  rejected =>
                    /\ pc'[p] = "done"
                    /\ exit_code'[p] = code
                    /\ ledger' = ledger
                    /\ pending' = pending
                    /\ trace'[p] = <<>>]_vars

\* A Stop without session_id was turned away with exit code 1 while the
\* table holds an open row.
C16_Witness ==
    /\ pc[1] = "done"
    /\ ev[1].argv = <<"Stop">>
    /\ ev[1].stdin = "json"
    /\ "session_id" \notin ev[1].data.present
    /\ exit_code[1] = 1
    /\ trace[1] = <<>>
    /\ Len(ledger) = 1
    /\ ledger[1].stoped_at = NULL

\* C17: validate_input_data fails with an unknown-event error when the
\* expected name is none of the three events, whatever the object holds;
\* otherwise with a mismatch error when hook_event_name is not the expected
\* name; otherwise with a missing-fields error naming exactly the required
\* fields that are absent or null; otherwise it returns; its arguments are
\* what they were.
C17_ValidateOrder ==
    (unit.fn = "validate_input_data" /\ unit.result # <<>>) =>
        LET d == unit.args[1]
            expected == unit.args[2]
            absent == {f \in REQUIRED_FIELDS[expected] :
                        f \notin d.present \/ f \in d.null}
        IN  /\ unit.result[1] =
                IF expected \notin {"UserPromptSubmit", "Stop", "Notification"}
                THEN [outcome |-> "UnknownEvent", missing |-> {}]
                ELSE IF "hook_event_name" \notin d.present
                        \/ "hook_event_name" \in d.null
                        \/ d.hook_event_name # expected
                     THEN [outcome |-> "Mismatch", missing |-> {}]
                ELSE IF absent # {}
                     THEN [outcome |-> "Missing", missing |-> absent]
                ELSE [outcome |-> "ok", missing |-> {}]
            /\ \E u \in ValidateUnits : u.args = unit.args

\* A Stop object with its own name but without session_id: the error names
\* session_id.
C17_Witness ==
    /\ unit.fn = "validate_input_data"
    /\ unit.args[2] = "Stop"
    /\ unit.args[1].hook_event_name = "Stop"
    /\ unit.result = <<[outcome |-> "Missing", missing |-> {"session_id"}]>>

\* C18: for two timestamps d >= 0 seconds apart _format_duration returns
\* "{d}s" below a minute; below an hour "{m}m{s}s", or "{m}m" when no second
\* remains; from an hour on "{h}h{m}m" with m the minutes within the hour, or
\* "{h}h" when no minute remains, the seconds dropped.
C18_DurationFormat ==
    (/\ unit.fn = "_format_duration"
     /\ unit.result # <<>>
     /\ unit.args[1] >= 0
     /\ unit.args[2] >= unit.args[1]) =>
        LET d == unit.args[2] - unit.args[1]
            h == d \div 3600
            mh == (d - h * 3600) \div 60
            m == d \div 60
            sec == d - m * 60
        IN  unit.result[1] =
                IF d < 60 THEN ToString(d) \o "s"
                ELSE IF d < 3600
                     THEN IF sec > 0
                          THEN ToString(m) \o "m" \o ToString(sec) \o "s"
                          ELSE ToString(m) \o "m"
                ELSE IF mh > 0
                     THEN ToString(h) \o "h" \o ToString(mh) \o "m"
                     ELSE ToString(h) \o "h"

\* 4500 seconds were formatted as "1h15m".
C18_Witness ==
    /\ unit.fn = "_format_duration"
    /\ unit.args[2] - unit.args[1] = 4500
    /\ unit.result = <<"1h15m">>

\* C19: _format_duration returns "Unknown" when the end is before the start
\* and when an argument is no timestamp.
C19_UnknownWhenNegative ==
    (/\ unit.fn = "_format_duration"
     /\ unit.result # <<>>
     /\ \/ unit.args[1] < 0
        \/ unit.args[2] < 0
        \/ unit.args[2] < unit.args[1]) =>
        unit.result = <<"Unknown">>

\* C20: with ITERM_SESSION_ID "<prefix>:<uuid>", the tag terminal-notifier
\* is given after -remove and after -group is the whole value
\* "<prefix>:<uuid>", and the -execute command carries the uuid.
C20_TagsAreWholeValue ==
    [][\A p \in Procs :
        (Len(ev[p].env) = 2 /\ Len(trace'[p]) > Len(trace[p])) =>
            LET raw == ev[p].env[1] \o ":" \o ev[p].env[2]
                uuid == ev[p].env[2]
                new == SubSeq(trace'[p], Len(trace[p]) + 1, Len(trace'[p]))
                Arg(cmd, flag, value) ==
                    \E k \in 1..(Len(cmd) - 1) : cmd[k] = flag /\ cmd[k + 1] = value
            IN  \A i \in 1..Len(new) :
                    new[i].cmd[1] = "terminal-notifier" =>
                        IF new[i].cmd[2] = "-remove"
                        THEN new[i].cmd = <<"terminal-notifier", "-remove", raw>>
                        ELSE /\ Arg(new[i].cmd, "-group", raw)
                             /\ Arg(new[i].cmd, "-execute",
                                    "activate-session.sh \"" \o uuid \o "\"")]_vars

\* C21: of the Stop invocations running at the same time, no two have
\* selected the same row: a row is closed, and its completion notified, by
\* one invocation only.
C21_StopsCloseDistinctRows ==
    \A p, q \in Procs :
        (/\ p # q
         /\ pc[p] \in {"stop_update", "stop_read", "notify"}
         /\ pc[q] \in {"stop_update", "stop_read", "notify"}
         /\ ev[p].argv = <<"Stop">>
         /\ ev[q].argv = <<"Stop">>) =>
            loc[p].record_id # loc[q].record_id

\* C22: terminal-notifier -remove is given the tag the alerts of the same
\* environment are grouped under (the part of ITERM_SESSION_ID after the
\* last ":"; "claude-code" without one), so that after a UserPromptSubmit
\* whose removal succeeded no alert of that tag is pending and the other
\* alerts are untouched; every alert raised carries -group with that tag and
\* adds no other tag to the pending alerts.
C22_DismissRemovesOwnAlert ==
    [][\A p \in Procs :
        LET env == ev[p].env
            tag == IF env = <<>> \/ env[Len(env)] = "" THEN "claude-code"
                   ELSE env[Len(env)]
            new == SubSeq(trace'[p], Len(trace[p]) + 1, Len(trace'[p]))
        IN  /\ (pc[p] = "dismiss" /\ pc'[p] # "dismiss" /\ env # <<>>) =>
                    /\ Len(new) = 1
                    /\ new[1].cmd = <<"terminal-notifier", "-remove", tag>>
                    /\ new[1].result = "ok" =>
                            /\ pc'[p] = "insert"
                            /\ pending' = pending \ {tag}
                    /\ new[1].result # "ok" => pending' = pending
            /\ (pc[p] = "notify" /\ pc'[p] = "done") =>
                    /\ pending' \subseteq pending \cup {tag}
                    /\ \A i \in 1..Len(new) :
                        (new[i].cmd[1] = "terminal-notifier") =>
                            /\ \E k \in 1..(Len(new[i].cmd) - 1) :
                                    new[i].cmd[k] = "-group" /\ new[i].cmd[k + 1] = tag
                            /\ new[i].result = "ok" => tag \in pending'
            /\ (/\ HandledDone(p, "UserPromptSubmit")
                /\ exit_code[p] = 0
                /\ trace[p] # <<>>
                /\ trace[p][1].result = "ok") =>
                    trace[p][1].cmd[3] \notin pending]_vars

\* A UserPromptSubmit from "w0t0p0:U1" is done, its removal succeeded: no
\* alert of U1 is pending, the alert of the terminal without a session
\* identifier still is, and a row closed earlier is in the table.
C22_Witness ==
    /\ HandledDone(1, "UserPromptSubmit")
    /\ trace[1] = <<Call(<<"terminal-notifier", "-remove", "U1">>, "ok")>>
    /\ pending = {"claude-code"}
    /\ Len(ledger) = 2
    /\ ledger[1].stoped_at # NULL

\* C23: no step removes a row or changes the id, session_id, created_at,
\* prompt, cwd or seq of a row; a step of an invocation for one session
\* leaves the rows of every other session as they are and adds no row of
\* another session; the INSERT adds exactly one row, of its session, with
\* stoped_at and lastWaitUserAt NULL, and changes no row; the UPDATE of a
\* Stop changes stoped_at of one row and nothing else.
C23_IsolatedAppendOnly ==
    [][/\ Len(ledger') >= Len(ledger)
       /\ \A i \in 1..Len(ledger) :
            /\ ledger'[i].id = ledger[i].id
            /\ ledger'[i].session_id = ledger[i].session_id
            /\ ledger'[i].created_at = ledger[i].created_at
            /\ ledger'[i].prompt = ledger[i].prompt
            /\ ledger'[i].cwd = ledger[i].cwd
            /\ ledger'[i].seq = ledger[i].seq
       /\ \A p \in Procs :
            (pc[p] \notin {"idle", "done"} /\ pc'[p] # pc[p]) =>
                LET sid == ev[p].data.session_id
                IN  /\ \A i \in 1..Len(ledger) :
                            ledger[i].session_id # sid => ledger'[i] = ledger[i]
                    /\ \A i \in (Len(ledger) + 1)..Len(ledger') :
                            ledger'[i].session_id = sid
                    /\ pc[p] = "insert" =>
                            /\ Len(ledger') = Len(ledger) + 1
                            /\ SubSeq(ledger', 1, Len(ledger)) = ledger
                            /\ ledger'[Len(ledger')].id = Len(ledger')
                            /\ ledger'[Len(ledger')].stoped_at = NULL
                            /\ ledger'[Len(ledger')].lastWaitUserAt = NULL
                    /\ pc[p] # "insert" => Len(ledger') = Len(ledger)
                    /\ pc[p] = "stop_update" =>
                            /\ Cardinality({i \in 1..Len(ledger) :
                                                ledger'[i] # ledger[i]}) <= 1
                            /\ \A i \in 1..Len(ledger) :
                                    ledger'[i].lastWaitUserAt = ledger[i].lastWaitUserAt
                    /\ pc[p] \notin {"insert", "stop_update", "wait_update"} =>
                            ledger' = ledger]_vars

\* Two sessions with one row each, s1's closed by a Stop that is now done,
\* s2's still open, while the other invocation is running.
C23_Witness ==
    /\ Len(ledger) = 2
    /\ ledger[1].session_id # ledger[2].session_id
    /\ ledger[1].stoped_at # NULL
    /\ ledger[2].stoped_at = NULL
    /\ ledger[2].seq = 1
    /\ pc[1] = "notify"
    /\ ev[1].argv = <<"Stop">>
    /\ pc[2] \notin {"idle", "done"}

====
